---- MODULE Spec2Model ----
(***************************************************************************)
(* Primer generation engine of acp-mcp: scoring (primer/scoring.rs) and    *)
(* phase-based section selection (primer/selection.rs).                    *)
(*                                                                         *)
(* select_sections is modelled step by step: one action per loop head and  *)
(* per push of each phase, and an explicit call stack for the recursive    *)
(* include_dependencies.  Section ids are the catalog positions 1..n, so   *)
(* the ids of a catalog are unique.                                        *)
(*                                                                         *)
(* Numbers.  weighted_score is kept in tenths (the preset weights have one *)
(* decimal), value_per_token as the exact fraction num/den; with the small *)
(* integers used here the f64 results compare exactly as these rationals.  *)
(***************************************************************************)
EXTENDS Integers, Sequences, FiniteSets, TLC

\* ------------------------------------------------------------------ bounds

\* Largest catalog: the catalogs have 1..MaxSections sections.
MaxSections == 3

\* A catalog/request differs from the plain one (fixed 20-token optional
\* sections, no conditions, no edges, domain count 2) in at most this many
\* attributes, or in the required flag of any of its sections and fewer than
\* this many other attributes.
MaxFeatures == 3

\* Token budgets of the request.
Budgets == {0, 25, 40, 50, 80}

\* Longest list of selected sections handed to the renderer.
MaxRendered == 3

\* Largest count of the snapshot and largest number literal of a condition.
MaxCount == 3

\* Longest list of modifiers of a section value.
MaxModifiers == 2

\* Concurrent generate_primer requests and reload_cache calls, and how often
\* the cache file on disk is rewritten.
NumRequests == 2

NumReloads == 2

MaxDisk == 1

\* ------------------------------------------------------------------ types.rs

None == [some |-> FALSE, v |-> 0]

Some(x) == [some |-> TRUE, v |-> x]

\* A &str is the sequence of its characters; a path name and a number literal
\* are one element each, and these are the literals in use.
Literals == <<"0", "1", "2", "3", "4", "5", "6", "7", "8", "9">>

\* The operators, as the characters they are written with.
OpChars(op) ==
    CASE op = ">=" -> <<">", "=">>
      [] op = "<=" -> <<"<", "=">>
      [] op = ">" -> <<">">>
      [] op = "<" -> <<"<">>
      [] op = "==" -> <<"=", "=">>
      [] op = "!=" -> <<"!", "=">>

\* The condition string "path op number"; op = "" is the operator-less form.
Condition(path, op, number) ==
    IF op = "" THEN <<path>>
    ELSE <<path, " ">> \o OpChars(op) \o <<" ", Literals[number + 1]>>

\* required_if: None
NoCondition == <<>>

\* TokenCount
Fixed(n) == [fixed |-> TRUE, n |-> n]

Dynamic == [fixed |-> FALSE, n |-> 0]

\* TokenCount::fixed_value
fixed_value(tokens) == IF tokens.fixed THEN Some(tokens.n) ELSE None

DomainsCondition == Condition("domains.count", ">", 3)

\* DimensionWeights::default (Preset::Balanced), in tenths.
BalancedWeights == [safety |-> 15, efficiency |-> 10, accuracy |-> 10, base |-> 10]

\* SectionValue::weighted_score, in tenths.
weighted_score(value, weights) ==
    value.safety * weights.safety + value.efficiency * weights.efficiency
        + value.accuracy * weights.accuracy + value.base * weights.base

\* ------------------------------------------------------------------ state.rs

\* A lookup that takes a path it does not know for a count of zero.
get_value_or_zero(state, path) ==
    CASE path = <<"domains.count">> -> Some(state.domains.count)
      [] path = <<"layers.count">> -> Some(state.layers.count)
      [] path = <<"constraints.frozenCount">> -> Some(state.constraints.frozen_count)
      [] OTHER -> Some(0)

\* ProjectState::get_value: the paths of the snapshot that resolve.
get_value(state, path) ==
    CASE path = <<"domains.count">> -> Some(state.domains.count)
      [] path = <<"layers.count">> -> Some(state.layers.count)
      [] path = <<"constraints.frozenCount">> -> Some(state.constraints.frozen_count)
      [] OTHER -> None

\* ------------------------------------------------------------------ scoring.rs

\* str::trim
trim(s) ==
    LET kept == {i \in 1..Len(s) : s[i] # " "}
    IN  IF kept = {} THEN <<>>
        ELSE SubSeq(s, CHOOSE i \in kept : \A j \in kept : i <= j,
                       CHOOSE i \in kept : \A j \in kept : i >= j)

\* str::find: the first place pat occurs at, or 0 for None.
find(s, pat) ==
    LET hits == {i \in 1..(Len(s) - Len(pat) + 1) : SubSeq(s, i, i + Len(pat) - 1) = pat}
    IN  IF hits = {} THEN 0 ELSE CHOOSE i \in hits : \A j \in hits : i <= j

\* str::parse::<f64> on the literals in use.
parse(s) ==
    IF Len(s) = 1 /\ \E n \in 1..Len(Literals) : Literals[n] = s[1]
    THEN Some((CHOOSE n \in 1..Len(Literals) : Literals[n] = s[1]) - 1)
    ELSE None

\* An ops array that looks for the bare ">" and "<" first.
ops_bare_first ==
    <<<<">">>, <<"<">>, <<">", "=">>, <<"<", "=">>, <<"=", "=">>, <<"!", "=">>>>

\* The ops array of evaluate_condition, in its order.
ops ==
    <<<<" ", ">", "=", " ">>, <<" ", "<", "=", " ">>, <<" ", ">", " ">>,
      <<" ", "<", " ">>, <<" ", "=", "=", " ">>, <<" ", "!", "=", " ">>>>

\* evaluate_condition; on integers |a - e| < 0.001 is a = e.
evaluate_condition(condition, state) ==
    LET c == trim(condition)
        found == {k \in 1..Len(ops) : find(c, ops[k]) # 0}
    IN  IF found = {}
        THEN LET v == get_value(state, c) IN v.some /\ v.v > 0
        ELSE LET op == ops[CHOOSE k \in found : \A j \in found : k <= j]
                 at == find(c, op)
                 path == trim(SubSeq(c, 1, at - 1))
                 value_str == trim(SubSeq(c, at + Len(op), Len(c)))
                 actual == get_value(state, path)
                 expected == parse(value_str)
             IN  IF ~actual.some THEN FALSE
                 ELSE IF ~expected.some THEN FALSE
                 ELSE CASE trim(op) = <<">", "=">> -> actual.v >= expected.v
                        [] trim(op) = <<"<", "=">> -> actual.v <= expected.v
                        [] trim(op) = <<">">> -> actual.v > expected.v
                        [] trim(op) = <<"<">> -> actual.v < expected.v
                        [] trim(op) = <<"=", "=">> -> actual.v = expected.v
                        [] trim(op) = <<"!", "=">> -> actual.v # expected.v
                        [] OTHER -> FALSE

\* The snapshot counter of a data source; 5 for a source it does not know.
estimated_items(source, state) ==
    CASE source = "cache.domains" -> state.domains.count
      [] source = "cache.layers" -> state.layers.count
      [] source = "cache.constraints.by_lock_level" -> state.constraints.protected_count
      [] source = "vars.variables" -> state.variables.count
      [] source = "attempts.active" -> state.attempts.active_count
      [] source = "cache.hacks" -> state.hacks.count
      [] source = "cache.entryPoints" -> state.entry_points.count
      [] OTHER -> 5

\* usize::min
usize_min(a, b) == IF a < b THEN a ELSE b

\* An estimate that takes no notice of max_items.
estimate_item_count_uncapped(source, max_items, state) ==
    estimated_items(source, state)

estimate_item_count(source, max_items, state) ==
    IF max_items.some
    THEN usize_min(estimated_items(source, state), max_items.v)
    ELSE estimated_items(source, state)

resolve_token_count(section, state) ==
    LET fixed == fixed_value(section.tokens)
        data == section.data
    IN  IF fixed.some THEN fixed.v
        ELSE IF data.some
             THEN LET item_count == estimate_item_count(data.v.source,
                                                        data.v.max_items, state)
                      item_tokens == IF data.v.item_tokens.some
                                     THEN data.v.item_tokens.v ELSE 10
                  IN  15 + item_count * item_tokens
             ELSE 30

\* i32::clamp
clamp(v, min, max) == IF v < min THEN min ELSE IF v > max THEN max ELSE v

\* `x as i32` of the f64 num/den: the fraction is dropped (towards zero) and
\* the result saturates at the ends of i32.
as_i32(num, den) ==
    clamp(IF num >= 0 THEN num \div den ELSE -((-num) \div den),
          -2147483647 - 1, 2147483647)

\* apply_modifier, the closure apply_to_dimension: add is clamped to 0..200,
\* multiply and set are stored as they come. A multiply is the fraction
\* num/den with den a power of two, so that the f64 product is exact.
apply_to_dimension(v, modifier) ==
    LET added == IF modifier.add.some
                 THEN clamp(v + modifier.add.v, 0, 200) ELSE v
        multiplied == IF modifier.multiply.some
                      THEN as_i32(added * modifier.multiply.v.num,
                                  modifier.multiply.v.den)
                      ELSE added
    IN  IF modifier.set.some THEN modifier.set.v ELSE multiplied

\* A modifier applied to all four dimensions whatever dimension it names.
apply_modifier_everywhere(value, modifier) ==
    [value EXCEPT !.safety = apply_to_dimension(@, modifier),
                  !.efficiency = apply_to_dimension(@, modifier),
                  !.accuracy = apply_to_dimension(@, modifier),
                  !.base = apply_to_dimension(@, modifier)]

apply_modifier(value, modifier) ==
    CASE modifier.dimension = "safety" ->
            [value EXCEPT !.safety = apply_to_dimension(@, modifier)]
      [] modifier.dimension = "efficiency" ->
            [value EXCEPT !.efficiency = apply_to_dimension(@, modifier)]
      [] modifier.dimension = "accuracy" ->
            [value EXCEPT !.accuracy = apply_to_dimension(@, modifier)]
      [] modifier.dimension = "base" ->
            [value EXCEPT !.base = apply_to_dimension(@, modifier)]
      [] modifier.dimension = "all" ->
            [value EXCEPT !.safety = apply_to_dimension(@, modifier),
                          !.efficiency = apply_to_dimension(@, modifier),
                          !.accuracy = apply_to_dimension(@, modifier),
                          !.base = apply_to_dimension(@, modifier)]

\* score_section, the loop over section.value.modifiers: the first k of them,
\* each applied when its condition holds in the snapshot.
RECURSIVE apply_modifiers(_, _, _)
apply_modifiers(value, state, k) ==
    IF k = 0 THEN value
    ELSE LET before == apply_modifiers(value, state, k - 1)
             modifier == value.modifiers[k]
         IN  IF evaluate_condition(modifier.condition, state)
             THEN apply_modifier(before, modifier)
             ELSE before

\* A scorer that takes every required_if for met, whatever the snapshot says.
score_section_ignoring_state(section, state, weights, dynamic_modifiers_enabled) ==
    LET ws == weighted_score(section.value, weights)
        tokens == resolve_token_count(section, state)
    IN  [section |-> section,
         adjusted_value |-> section.value,
         weighted_score |-> ws,
         value_per_token |-> IF tokens > 0 THEN [num |-> ws, den |-> tokens]
                                           ELSE [num |-> 0, den |-> 1],
         tokens |-> tokens,
         is_conditionally_required |-> section.required_if # NoCondition]

score_section(section, state, weights, dynamic_modifiers_enabled) ==
    LET adjusted == IF dynamic_modifiers_enabled
                    THEN apply_modifiers(section.value, state,
                                         Len(section.value.modifiers))
                    ELSE section.value
        ws == weighted_score(adjusted, weights)
        tokens == resolve_token_count(section, state)
    IN  [section |-> section,
         adjusted_value |-> adjusted,
         weighted_score |-> ws,
         value_per_token |-> IF tokens > 0 THEN [num |-> ws, den |-> tokens]
                                           ELSE [num |-> 0, den |-> 1],
         tokens |-> tokens,
         is_conditionally_required |->
             IF section.required_if = NoCondition THEN FALSE
             ELSE evaluate_condition(section.required_if, state)]

score_sections(sections, state, weights, dynamic_modifiers_enabled) ==
    [i \in 1..Len(sections) |->
        score_section(sections[i], state, weights, dynamic_modifiers_enabled)]

\* ------------------------------------------------------------------ inputs

\* The plain catalog entry (the shape of create_test_section in the tests).
PlainSection(i) ==
    [id |-> i,
     category |-> "core",
     tokens |-> Fixed(20),
     value |-> [safety |-> 50, efficiency |-> 50, accuracy |-> 50, base |-> 50,
                modifiers |-> <<>>],
     required |-> FALSE,
     required_if |-> NoCondition,
     capabilities |-> {},
     capabilities_all |-> {},
     depends_on |-> <<>>,
     conflicts_with |-> {},
     tags |-> {},
     data |-> None]

Feature(k, s, v, d) == [k |-> k, s |-> s, v |-> v, d |-> d]

\* The depends_on lists of section s: one id (its own included, so that a
\* section can depend on itself), or two different ids of other sections.
DependsChoices(n, s) ==
    {<<a>> : a \in 1..n}
    \cup {d \in ((1..n) \ {s}) \X ((1..n) \ {s}) : d[1] # d[2]}

\* Every single way a catalog of n sections, its snapshot or its request can
\* differ from the plain one.
Features(n) ==
    {Feature("tokens", s, v, <<>>) : s \in 1..n, v \in {0, 30}}
    \cup {Feature(k, s, 0, <<>>) : s \in 1..n,
            k \in {"required", "force_include", "required_if", "safety",
                   "capabilities_all"}}
    \cup {Feature("conflicts_with", p[1], p[2], <<>>) :
            p \in {q \in (1..n) \X (1..n) : q[1] # q[2]}}
    \cup UNION {{Feature("depends_on", s, 0, d) : d \in DependsChoices(n, s)} : s \in 1..n}
    \cup {Feature("domains", 0, 4, <<>>)}

RECURSIVE SubsetsUpTo(_, _)
SubsetsUpTo(S, k) ==
    IF k = 0 THEN {{}}
    ELSE LET P == SubsetsUpTo(S, k - 1)
         IN  P \cup {p \cup {x} : p \in P, x \in S}

\* One token cost and one depends_on list per section.
Consistent(fs) ==
    \A f \in fs, g \in fs :
        (f.k = g.k /\ f.s = g.s /\ f.k \in {"tokens", "depends_on"}) => f = g

RequiredFlags(n) == {f \in Features(n) : f.k = "required"}

FeatureSets(n) ==
    {fs \in SubsetsUpTo(Features(n), MaxFeatures) : Consistent(fs)}
    \cup {fs \in {r \cup o : r \in SUBSET RequiredFlags(n),
                            o \in SubsetsUpTo(Features(n) \ RequiredFlags(n),
                                              MaxFeatures - 1)} : Consistent(fs)}

Has(fs, k, s) == \E f \in fs : f.k = k /\ f.s = s

Get(fs, k, s) == CHOOSE f \in fs : f.k = k /\ f.s = s

BuildSection(i, fs) ==
    [PlainSection(i) EXCEPT
        !.tokens = IF Has(fs, "tokens", i) THEN Fixed(Get(fs, "tokens", i).v) ELSE @,
        !.value = IF Has(fs, "safety", i) THEN [@ EXCEPT !.safety = 90] ELSE @,
        !.required = Has(fs, "required", i),
        !.required_if = IF Has(fs, "required_if", i) THEN DomainsCondition ELSE @,
        !.capabilities_all = IF Has(fs, "capabilities_all", i) THEN {"network"} ELSE @,
        !.depends_on = IF Has(fs, "depends_on", i) THEN Get(fs, "depends_on", i).d ELSE @,
        !.conflicts_with = {f.v : f \in {g \in fs : g.k = "conflicts_with" /\ g.s = i}}]

BuildCatalog(n, fs) == [i \in 1..n |-> BuildSection(i, fs)]

BuildState(fs) ==
    [domains |-> [count |-> IF Has(fs, "domains", 0) THEN 4 ELSE 2],
     layers |-> [count |-> 0],
     constraints |-> [frozen_count |-> 0]]

\* GeneratePrimerRequest::default with the budget and the forced ids set.
BuildRequest(budget, fs) ==
    [token_budget |-> budget,
     capabilities |-> {"shell", "file-read", "file-write"},
     categories |-> None,
     tags |-> None,
     force_include |-> {f.s : f \in {g \in fs : g.k = "force_include"}}]

\* ------------------------------------------------------------------ selection.rs

\* A capability check that looks at the any-of set first.
is_capability_compatible_any_first(s, capabilities) ==
    IF s.section.capabilities # {}
    THEN \E c \in s.section.capabilities : c \in capabilities
    ELSE \A c \in s.section.capabilities_all : c \in capabilities

is_capability_compatible(s, capabilities) ==
    IF s.section.capabilities_all # {}
    THEN \A c \in s.section.capabilities_all : c \in capabilities
    ELSE IF s.section.capabilities # {}
    THEN \E c \in s.section.capabilities : c \in capabilities
    ELSE TRUE

is_category_compatible(s, categories) ==
    IF categories.some THEN s.section.category \in categories.v ELSE TRUE

is_tag_compatible(s, tags) ==
    IF tags.some THEN \E t \in s.section.tags : t \in tags.v ELSE TRUE

\* Vec::iter().filter(..).collect(): the elements of seq that the predicate
\* keeps (given as the set keep), in order.
FilterSeq(seq, keep) ==
    LET F[i \in 0..Len(seq)] ==
            IF i = 0 THEN <<>>
            ELSE IF seq[i] \in keep THEN Append(F[i - 1], seq[i]) ELSE F[i - 1]
    IN  F[Len(seq)]

\* The eligible list of select_sections, as ids in catalog order.
Eligible(sc, req) ==
    FilterSeq([i \in 1..Len(sc) |-> i],
              {i \in 1..Len(sc) : /\ is_capability_compatible(sc[i], req.capabilities)
                                  /\ is_category_compatible(sc[i], req.categories)
                                  /\ is_tag_compatible(sc[i], req.tags)})

Range(seq) == {seq[i] : i \in 1..Len(seq)}

can_include(id, included, excluded) == id \notin included /\ id \notin excluded

mark_conflicts(section, excluded) == excluded \cup section.conflicts_with

\* A budget test that forgets the cost of the section it is about to add.
FitsIgnoresCost(used, tokens, budget) == used <= budget

\* The budget test in front of every push.
Fits(used, tokens, budget) == used + tokens <= budget

\* slice::sort_by is stable: x goes in front of the first element it is
\* strictly before (<<x, e>> in before: the comparator says Less), behind the
\* elements that compare equal to it.
InsertStable(x, sorted, before) ==
    LET later == {k \in 1..Len(sorted) : <<x, sorted[k]>> \in before}
        at == IF later = {} THEN Len(sorted) + 1
              ELSE CHOOSE k \in later : \A m \in later : k <= m
    IN  SubSeq(sorted, 1, at - 1) \o <<x>> \o SubSeq(sorted, at, Len(sorted))

SortBy(seq, before) ==
    LET S[i \in 0..Len(seq)] ==
            IF i = 0 THEN <<>> ELSE InsertStable(seq[i], S[i - 1], before)
    IN  S[Len(seq)]

\* ------------------------------------------------------------------ state

VARIABLES
    state,          \* the ProjectState snapshot
    request,        \* the GeneratePrimerRequest
    scored,         \* score_sections(catalog, state, weights); .section is the entry
    eligible,       \* select_sections: ids that pass the three filters
    selected,       \* select_sections: the result sequence
    tokens_used,
    included_ids,
    excluded_ids,
    safety_budget,
    safety_tokens,
    excluded_count,
    pc,             \* "phase1".."phase4", "done", "stack_overflow", "panic"
    queue,          \* what is left of the current phase's candidate list
    cur,            \* the candidate whose include_dependencies call is open, or 0
    stack           \* the open include_dependencies calls, innermost last

\* PrimerGenerator::generate called twice on one cache, PrimerRenderer::render
VARIABLES
    cache,          \* the acp Cache: files (path -> layer or "")
    format,         \* PrimerRenderer.format
    sections,       \* render: the selected sections handed to the renderer
    idx,            \* render: the section the iterator is at
    outcomes,       \* render: what render_section returned for each section so far
    rendered,       \* render: the Vec<String> being collected
    content,        \* generate: the content of this call, or None
    previous        \* generate: the content of the call before, or None

\* evaluate_condition called on its own
VARIABLES
    condition,      \* the condition string
    verdict         \* what evaluate_condition returned, or None

\* score_section on its own
VARIABLES
    given,              \* the PrimerSection handed to score_section
    modifiers_enabled,  \* the dynamic_modifiers_enabled handed to it
    returned            \* the ScoredSection it returned, once it has

scorer == <<given, modifiers_enabled, returned>>

evaluator == <<condition, verdict, scorer>>

\* AppState: the cache behind its RwLock, the request handlers, reload_cache
VARIABLES
    disk,           \* the version of .acp/acp.cache.json on disk
    shared_cache,   \* inner.cache: the version of the Cache inside the RwLock
    readers,        \* tasks holding an RwLockReadGuard of inner.cache
    writer,         \* the task holding the RwLockWriteGuard, or 0
    waiters,        \* tasks waiting for the lock, in arrival order
    task,           \* where each task is
    loaded,         \* reload_cache: the Cache it parsed from disk
    observed        \* handle_generate_primer: the cache version each stage saw

app == <<disk, shared_cache, readers, writer, waiters, task, loaded, observed>>

selector == <<state, request, scored, eligible, selected, tokens_used,
              included_ids, excluded_ids, safety_budget, safety_tokens,
              excluded_count, pc, queue, cur, stack>>

renderer == <<cache, format, sections, idx, outcomes, rendered, content, previous>>

vars == <<selector, renderer, evaluator, app>>

\* What a run of select_sections leaves alone: its arguments, and everything
\* outside it.
inputs == <<state, request, scored, eligible, renderer, evaluator, app>>

\* No task of the server is running.
AppIdle ==
    /\ disk = 0
    /\ shared_cache = 0
    /\ readers = {}
    /\ writer = 0
    /\ waiters = <<>>
    /\ task = <<>>
    /\ loaded = <<>>
    /\ observed = <<>>

\* No section is being scored on its own.
ScorerIdle ==
    /\ given = <<>>
    /\ modifiers_enabled = FALSE
    /\ returned = None

\* No condition is being evaluated on its own, no section scored, no task is
\* running.
EvaluatorIdle ==
    /\ condition = <<>>
    /\ verdict = None
    /\ ScorerIdle
    /\ AppIdle

\* No selection is going on (the snapshot aside).
SelectionIdle ==
    /\ request = [token_budget |-> 0, capabilities |-> {}, categories |-> None,
                  tags |-> None, force_include |-> {}]
    /\ scored = <<>>
    /\ eligible = <<>>
    /\ selected = <<>>
    /\ tokens_used = 0
    /\ included_ids = {}
    /\ excluded_ids = {}
    /\ safety_budget = 0
    /\ safety_tokens = 0
    /\ excluded_count = 0
    /\ pc = "idle"
    /\ queue = <<>>
    /\ cur = 0
    /\ stack = <<>>

SelectorIdle ==
    /\ state = [domains |-> [count |-> 0], layers |-> [count |-> 0],
                constraints |-> [frozen_count |-> 0]]
    /\ SelectionIdle

\* No rendering is going on.
RendererIdle ==
    /\ cache = [files |-> <<>>]
    /\ format = "Markdown"
    /\ sections = <<>>
    /\ idx = 0
    /\ outcomes = <<>>
    /\ rendered = <<>>
    /\ content = None
    /\ previous = None

budget == request.token_budget

Reason(kind, by) == [kind |-> kind, by |-> by]

\* A SelectedSection that records the section's safety value for its score.
SelectedSectionBySafety(id, reason) ==
    [id |-> id,
     score |-> scored[id].section.value.safety,
     tokens |-> scored[id].tokens,
     selection_reason |-> reason]

\* A SelectedSection: the section (by id), its score, tokens and reason.
SelectedSection(id, reason) ==
    [id |-> id,
     score |-> scored[id].weighted_score,
     tokens |-> scored[id].tokens,
     selection_reason |-> reason]

\* A push that forgets to charge the tokens of the section.
PushForgetsTokens(id, reason) ==
    /\ selected' = Append(selected, SelectedSection(id, reason))
    /\ tokens_used' = tokens_used
    /\ included_ids' = included_ids \cup {id}
    /\ excluded_ids' = mark_conflicts(scored[id].section, excluded_ids)

\* selected.push(..); tokens_used += ..; included.insert(..); mark_conflicts(..)
Push(id, reason) ==
    /\ selected' = Append(selected, SelectedSection(id, reason))
    /\ tokens_used' = tokens_used + scored[id].tokens
    /\ included_ids' = included_ids \cup {id}
    /\ excluded_ids' = mark_conflicts(scored[id].section, excluded_ids)

NoPush == UNCHANGED <<selected, tokens_used, included_ids, excluded_ids>>

\* One include_dependencies call: the section whose depends_on is walked, the
\* position in it, and the length of selected when the call was entered.
Frame(id) == [section |-> id, i |-> 1, mark |-> Len(selected)]

Top == stack[Len(stack)]

DepsOf(id) == scored[id].section.depends_on

FrameDone(f) == f.i > Len(DepsOf(f.section))

\* A call for a section that already has an open call entered with the same
\* selected/included/excluded/tokens_used repeats that call's descent step for
\* step: the recursion never returns and the thread overflows its stack.
NeverReturns(id) ==
    \E k \in 1..Len(stack) : stack[k].section = id /\ stack[k].mark = Len(selected)

\* The candidate lists of the four phases.
\* A candidate list that leaves the sections flagged required out.
Phase1CandidatesForcedOnly ==
    FilterSeq(eligible, {i \in 1..Len(scored) : i \in request.force_include})

Phase1Candidates ==
    FilterSeq(eligible, {i \in 1..Len(scored) :
                            scored[i].section.required \/ i \in request.force_include})

Phase2Candidates ==
    FilterSeq(eligible, {i \in 1..Len(scored) :
                            scored[i].is_conditionally_required /\ i \notin included_ids})

SafetyBefore(a, b) ==
    \/ scored[a].adjusted_value.safety > scored[b].adjusted_value.safety
    \/ /\ scored[a].adjusted_value.safety = scored[b].adjusted_value.safety
       /\ scored[a].weighted_score > scored[b].weighted_score

\* A phase 3 list sorted by value per token instead of safety.
Phase3CandidatesByValue ==
    SortBy(FilterSeq(eligible, {i \in 1..Len(scored) :
                                   /\ scored[i].adjusted_value.safety >= 80
                                   /\ i \notin included_ids
                                   /\ i \notin excluded_ids}),
           {p \in (1..Len(scored)) \X (1..Len(scored)) :
               scored[p[1]].value_per_token.num * scored[p[2]].value_per_token.den
                   > scored[p[2]].value_per_token.num * scored[p[1]].value_per_token.den})

Phase3Candidates ==
    SortBy(FilterSeq(eligible, {i \in 1..Len(scored) :
                                   /\ scored[i].adjusted_value.safety >= 80
                                   /\ i \notin included_ids
                                   /\ i \notin excluded_ids}),
           {p \in (1..Len(scored)) \X (1..Len(scored)) : SafetyBefore(p[1], p[2])})

\* A comparison that also puts a section before its equals.
ValueBeforeOrEqual(a, b) ==
    scored[a].value_per_token.num * scored[b].value_per_token.den
        >= scored[b].value_per_token.num * scored[a].value_per_token.den

ValueBefore(a, b) ==
    scored[a].value_per_token.num * scored[b].value_per_token.den
        > scored[b].value_per_token.num * scored[a].value_per_token.den

Phase4Candidates ==
    SortBy(FilterSeq(eligible, {i \in 1..Len(scored) :
                                   i \notin included_ids /\ i \notin excluded_ids}),
           {p \in (1..Len(scored)) \X (1..Len(scored)) : ValueBefore(p[1], p[2])})

\* ((budget - tokens_used) as f64 * 0.4) as usize
SafetyBudget(remaining) == (2 * remaining) \div 5

Init ==
    \E n \in 1..MaxSections :
      \E fs \in FeatureSets(n), b \in Budgets :
        /\ state = BuildState(fs)
        /\ request = BuildRequest(b, fs)
        /\ scored = score_sections(BuildCatalog(n, fs), state, BalancedWeights, TRUE)
        /\ eligible = Eligible(scored, request)
        /\ selected = <<>>
        /\ tokens_used = 0
        /\ included_ids = {}
        /\ excluded_ids = {}
        /\ safety_budget = 0
        /\ safety_tokens = 0
        /\ excluded_count = 0
        /\ pc = "phase1"
        /\ queue = Phase1Candidates
        /\ cur = 0
        /\ stack = <<>>
        /\ RendererIdle
        /\ EvaluatorIdle

\* ------------------------------------------------------------------ include_dependencies

Running == pc \in {"phase1", "phase2", "phase3", "phase4"}

\* The dependency the innermost call is looking at.
DepId == DepsOf(Top.section)[Top.i]

\* A lookup of the dependency in the whole catalog instead of all_sections.
DepSkippedUnfiltered(dep_id) ==
    \/ dep_id \in included_ids
    \/ dep_id \notin 1..Len(scored)
    \/ dep_id \in excluded_ids

\* `continue`: already included, not among all_sections, or excluded.
DepSkipped(dep_id) ==
    \/ dep_id \in included_ids
    \/ dep_id \notin Range(eligible)
    \/ dep_id \in excluded_ids

Advance(stk) == [stk EXCEPT ![Len(stk)].i = @ + 1]

DepSkip ==
    /\ Running /\ stack # <<>> /\ ~FrameDone(Top)
    /\ DepSkipped(DepId)
    /\ stack' = Advance(stack)
    /\ UNCHANGED <<inputs, selected, tokens_used, included_ids, excluded_ids,
                   safety_budget, safety_tokens, excluded_count, pc, queue, cur>>

\* The recursive call for a dependency that was found.
DepCall ==
    /\ Running /\ stack # <<>> /\ ~FrameDone(Top)
    /\ ~DepSkipped(DepId)
    /\ ~NeverReturns(DepId)
    /\ stack' = Append(stack, Frame(DepId))
    /\ UNCHANGED <<inputs, selected, tokens_used, included_ids, excluded_ids,
                   safety_budget, safety_tokens, excluded_count, pc, queue, cur>>

\* The recursive call that never returns: a dependency cycle.
StackOverflow ==
    /\ Running /\ stack # <<>> /\ ~FrameDone(Top)
    /\ ~DepSkipped(DepId)
    /\ NeverReturns(DepId)
    /\ pc' = "stack_overflow"
    /\ UNCHANGED <<inputs, selected, tokens_used, included_ids, excluded_ids,
                   safety_budget, safety_tokens, excluded_count, queue, cur, stack>>

\* The recursive call returns and the caller appends the dependency if it fits.
DepReturn ==
    /\ Running /\ Len(stack) >= 2 /\ FrameDone(Top)
    /\ LET dep == Top.section
           caller == stack[Len(stack) - 1].section
       IN  IF Fits(tokens_used, scored[dep].tokens, budget)
           THEN Push(dep, Reason("Dependency", caller))
           ELSE NoPush
    /\ stack' = Advance(SubSeq(stack, 1, Len(stack) - 1))
    /\ UNCHANGED <<inputs, safety_budget, safety_tokens, excluded_count, pc, queue, cur>>

\* ------------------------------------------------------------------ select_sections

\* The head of a phase's for loop up to the include_dependencies call.
LoopHead(break, skip) ==
    /\ cur = 0 /\ queue # <<>>
    /\ IF break
       THEN queue' = <<>> /\ UNCHANGED <<cur, stack>>
       ELSE /\ queue' = Tail(queue)
            /\ IF ~can_include(Head(queue), included_ids, excluded_ids) \/ skip
               THEN UNCHANGED <<cur, stack>>
               ELSE cur' = Head(queue) /\ stack' = <<Frame(Head(queue))>>
    /\ UNCHANGED <<inputs, selected, tokens_used, included_ids, excluded_ids,
                   safety_budget, safety_tokens, excluded_count, pc>>

\* A phase loop that breaks, instead of going on, when the section itself
\* fails the budget test.
LoopPushBreaks(reason) ==
    /\ cur # 0 /\ Len(stack) = 1 /\ FrameDone(Top)
    /\ IF Fits(tokens_used, scored[cur].tokens, budget)
       THEN Push(cur, reason) /\ queue' = queue
       ELSE NoPush /\ queue' = <<>>
    /\ cur' = 0
    /\ stack' = <<>>
    /\ UNCHANGED <<inputs, safety_budget, excluded_count, pc>>

\* include_dependencies has returned to the phase loop: the section itself.
LoopPush(reason) ==
    /\ cur # 0 /\ Len(stack) = 1 /\ FrameDone(Top)
    /\ IF Fits(tokens_used, scored[cur].tokens, budget)
       THEN Push(cur, reason)
       ELSE NoPush
    /\ cur' = 0
    /\ stack' = <<>>
    /\ UNCHANGED <<inputs, safety_budget, excluded_count, pc, queue>>

Phase1Loop ==
    /\ pc = "phase1"
    /\ LoopHead(FALSE, FALSE)

\* A reason that names the required flag before the forced-include list.
Phase1ReasonRequiredFirst(id) ==
    IF scored[id].section.required
    THEN Reason("Required", 0)
    ELSE Reason("ForcedInclude", 0)

\* The selection_reason of a section appended by the phase 1 loop.
Phase1Reason(id) ==
    IF id \in request.force_include
    THEN Reason("ForcedInclude", 0)
    ELSE Reason("Required", 0)

Phase1Push ==
    /\ pc = "phase1"
    /\ LoopPush(Phase1Reason(cur))
    /\ UNCHANGED safety_tokens

EnterPhase2 ==
    /\ pc = "phase1" /\ cur = 0 /\ queue = <<>>
    /\ pc' = "phase2"
    /\ queue' = Phase2Candidates
    /\ UNCHANGED <<inputs, selected, tokens_used, included_ids, excluded_ids,
                   safety_budget, safety_tokens, excluded_count, cur, stack>>

Phase2Loop ==
    /\ pc = "phase2"
    /\ LoopHead(FALSE, FALSE)

Phase2Push ==
    /\ pc = "phase2"
    /\ LoopPush(Reason("ConditionallyRequired", 0))
    /\ UNCHANGED safety_tokens

EnterPhase3 ==
    /\ pc = "phase2" /\ cur = 0 /\ queue = <<>>
    /\ pc' = "phase3"
    /\ safety_budget' = SafetyBudget(budget - tokens_used)
    /\ safety_tokens' = 0
    /\ queue' = Phase3Candidates
    /\ UNCHANGED <<inputs, selected, tokens_used, included_ids, excluded_ids,
                   excluded_count, cur, stack>>

Phase3Loop ==
    /\ pc = "phase3"
    /\ LoopHead(safety_tokens >= safety_budget,
                queue # <<>> /\ ~Fits(tokens_used, scored[Head(queue)].tokens, budget))

Phase3Push ==
    /\ pc = "phase3"
    /\ LoopPush(Reason("SafetyCritical", 0))
    /\ safety_tokens' = IF Fits(tokens_used, scored[cur].tokens, budget)
                        THEN safety_tokens + scored[cur].tokens
                        ELSE safety_tokens

EnterPhase4 ==
    /\ pc = "phase3" /\ cur = 0 /\ queue = <<>>
    /\ pc' = "phase4"
    /\ queue' = Phase4Candidates
    /\ UNCHANGED <<inputs, selected, tokens_used, included_ids, excluded_ids,
                   safety_budget, safety_tokens, excluded_count, cur, stack>>

Phase4Loop ==
    /\ pc = "phase4"
    /\ LoopHead(tokens_used >= budget,
                queue # <<>> /\ ~Fits(tokens_used, scored[Head(queue)].tokens, budget))

Phase4Push ==
    /\ pc = "phase4"
    /\ LoopPush(Reason("ValueOptimized", 0))
    /\ UNCHANGED safety_tokens

\* eligible.len() - selected.len() on usize.  When it would go below zero a
\* release build wraps to 2^64 - d, which is written here as the residue -d.
Finish ==
    /\ pc = "phase4" /\ cur = 0 /\ queue = <<>>
    /\ pc' = "done"
    /\ excluded_count' = Len(eligible) - Len(selected)
    /\ UNCHANGED <<inputs, selected, tokens_used, included_ids, excluded_ids,
                   safety_budget, safety_tokens, queue, cur, stack>>

\* The same subtraction in a build with overflow checks: the thread panics.
FinishPanic ==
    /\ pc = "phase4" /\ cur = 0 /\ queue = <<>>
    /\ Len(eligible) < Len(selected)
    /\ pc' = "panic"
    /\ UNCHANGED <<inputs, selected, tokens_used, included_ids, excluded_ids,
                   safety_budget, safety_tokens, excluded_count, queue, cur, stack>>

Next ==
    \/ Phase1Loop \/ Phase1Push \/ EnterPhase2
    \/ Phase2Loop \/ Phase2Push \/ EnterPhase3
    \/ Phase3Loop \/ Phase3Push \/ EnterPhase4
    \/ Phase4Loop \/ Phase4Push
    \/ Finish \/ FinishPanic
    \/ DepSkip \/ DepCall \/ DepReturn \/ StackOverflow

Spec == Init /\ [][Next]_vars

\* ------------------------------------------------------------------ eligibility inputs

\* The (capabilities_all, capabilities) pairs a section comes with; the request
\* offers shell, file-read and file-write, never network.
CapabilityProfiles ==
    {ca \in SUBSET {"shell", "network"} : ca # {"network"}}
        \X {{}, {"shell"}, {"network"}, {"file-read", "network"}}

\* How the sections of the catalog refer to one another.
DependencyShapes == {"none", "chain", "reverse", "self", "cycle"}

\* What makes section 1 a candidate of a phase.
Roles == {"optional", "required", "forced", "conditional", "safety"}

\* Section i of a catalog in which section 1 has the role, the capability
\* profile p1, the category and the tags given, and section 2 the profile p2.
FilteredSection(i, shape, role, p1, p2, category, tags) ==
    [PlainSection(i) EXCEPT
        !.required = (i = 1 /\ role = "required"),
        !.required_if = IF i = 1 /\ role = "conditional" THEN DomainsCondition ELSE @,
        !.value = IF i = 1 /\ role = "safety" THEN [@ EXCEPT !.safety = 90] ELSE @,
        !.capabilities_all = IF i = 1 THEN p1[1] ELSE IF i = 2 THEN p2[1] ELSE @,
        !.capabilities = IF i = 1 THEN p1[2] ELSE IF i = 2 THEN p2[2] ELSE @,
        !.category = IF i = 1 THEN category ELSE @,
        !.tags = IF i = 1 THEN tags ELSE @,
        !.depends_on =
            CASE i = 1 /\ shape \in {"chain", "cycle"} -> <<2>>
              [] i = 1 /\ shape = "self" -> <<1>>
              [] i = 2 /\ shape = "reverse" -> <<1>>
              [] i = 2 /\ shape = "cycle" -> <<3, 1>>
              [] OTHER -> <<>>,
        !.conflicts_with = IF i = 3 /\ shape = "cycle" THEN {2} ELSE {}]

\* select_sections called on such a catalog, with or without the category and
\* tag allow-lists in the request.
EligibleInit ==
    \E n \in 1..MaxSections :
      \E shape \in DependencyShapes, role \in Roles,
         p1 \in CapabilityProfiles, p2 \in {<<{}, {}>>, <<{"shell", "network"}, {"shell"}>>},
         category \in {"core", "extra"}, tags \in {{}, {"api"}},
         categories \in {None, Some({"core"})}, filter_tags \in {None, Some({"api"})} :
        /\ state = [domains |-> [count |-> 4], layers |-> [count |-> 0],
                    constraints |-> [frozen_count |-> 0]]
        /\ request = [token_budget |-> 80,
                      capabilities |-> {"shell", "file-read", "file-write"},
                      categories |-> categories,
                      tags |-> filter_tags,
                      force_include |-> IF role = "forced" THEN {1} ELSE {}]
        /\ scored = score_sections(
                        [i \in 1..n |-> FilteredSection(i, shape, role, p1, p2, category, tags)],
                        state, BalancedWeights, TRUE)
        /\ eligible = Eligible(scored, request)
        /\ selected = <<>>
        /\ tokens_used = 0
        /\ included_ids = {}
        /\ excluded_ids = {}
        /\ safety_budget = 0
        /\ safety_tokens = 0
        /\ excluded_count = 0
        /\ pc = "phase1"
        /\ queue = Phase1Candidates
        /\ cur = 0
        /\ stack = <<>>
        /\ RendererIdle
        /\ EvaluatorIdle

SpecEligible == EligibleInit /\ [][Next]_vars

\* ---------------------------------------------------------------------------
\* select_sections on catalogs whose sections differ in value and cost
\* ---------------------------------------------------------------------------

\* The safety, efficiency and token cost a section can have.
ValueProfiles ==
    [safety : {50, 80, 100}, efficiency : {50, 100}, tokens : {2, 20, 30}]

\* The value and cost of create_test_section's defaults.
PlainProfile == [safety |-> 50, efficiency |-> 50, tokens |-> 20]

RankedBudgets == {2, 3, 25, 50, 80}

\* Section i with the profile given, in a catalog of the shape and role given.
RankedSection(i, shape, role, profile) ==
    LET s == FilteredSection(i, shape, role, <<{}, {}>>, <<{}, {}>>, "core", {})
    IN  IF profile = PlainProfile THEN s
        ELSE [s EXCEPT !.value = [@ EXCEPT !.safety = profile.safety,
                                           !.efficiency = profile.efficiency],
                       !.tokens = Fixed(profile.tokens)]

\* The data sources estimate_item_count knows, and one it does not.
Sources ==
    {"cache.domains", "cache.layers", "cache.constraints.by_lock_level",
     "vars.variables", "attempts.active", "cache.hacks", "cache.entryPoints",
     "cache.files"}

\* The data bindings of a dynamic section: none, or a source with or without
\* max_items and item_tokens (the fields the estimate reads).
DataBindings ==
    {None} \cup {Some(d) : d \in [source : Sources,
                                  max_items : {None, Some(0), Some(2)},
                                  item_tokens : {None, Some(3)}]}

\* A snapshot whose counters all differ: r domains, r + 1 layers, and so on.
CountedState(r) ==
    [domains |-> [count |-> r],
     layers |-> [count |-> r + 1],
     constraints |-> [frozen_count |-> 0, protected_count |-> r + 2],
     variables |-> [count |-> r + 3],
     attempts |-> [active_count |-> r + 4],
     hacks |-> [count |-> r + 5],
     entry_points |-> [count |-> r + 6]]

\* The snapshot of a project with four domains.
FourDomains ==
    [domains |-> [count |-> 4], layers |-> [count |-> 0],
     constraints |-> [frozen_count |-> 0]]

\* The catalogs of n sections select_sections is called on, each with its
\* snapshot and its forced ids: independent optional sections with any
\* profiles; plain sections with a shape and a role; plain sections after a
\* dynamic one.
RankedInputs(n) ==
    {[sections |-> [i \in 1..n |-> RankedSection(i, "none", "optional", profiles[i])],
      state |-> FourDomains,
      force_include |-> {}] : profiles \in [1..n -> ValueProfiles]}
    \cup {[sections |-> [i \in 1..n |-> RankedSection(i, shape, role, PlainProfile)],
           state |-> FourDomains,
           force_include |-> IF role = "forced" THEN {1} ELSE {}] :
               shape \in DependencyShapes, role \in Roles}
    \cup {[sections |-> [i \in 1..n |->
                            IF i = 1
                            THEN [PlainSection(1) EXCEPT !.tokens = Dynamic,
                                                         !.data = data]
                            ELSE PlainSection(i)],
           state |-> CountedState(r),
           force_include |-> {}] :
               data \in DataBindings, r \in 0..MaxCount}

RankedInit ==
    \E n \in 1..MaxSections, b \in RankedBudgets :
      \E input \in RankedInputs(n) :
        /\ state = input.state
        /\ request = [token_budget |-> b,
                      capabilities |-> {"shell", "file-read", "file-write"},
                      categories |-> None,
                      tags |-> None,
                      force_include |-> input.force_include]
        /\ scored = score_sections(input.sections, state, BalancedWeights, TRUE)
        /\ eligible = Eligible(scored, request)
        /\ selected = <<>>
        /\ tokens_used = 0
        /\ included_ids = {}
        /\ excluded_ids = {}
        /\ safety_budget = 0
        /\ safety_tokens = 0
        /\ excluded_count = 0
        /\ pc = "phase1"
        /\ queue = Phase1Candidates
        /\ cur = 0
        /\ stack = <<>>
        /\ RendererIdle
        /\ EvaluatorIdle

SpecRanked == RankedInit /\ [][Next]_vars

\* ------------------------------------------------------------------ results

Done == pc = "done"

SelectedIds == {selected[k].id : k \in 1..Len(selected)}

Ids == 1..Len(scored)

IsEligible(i) == i \in Range(eligible)

\* The ids of the result, in order.
SelectedSeq == [k \in 1..Len(selected) |-> selected[k].id]

ReasonOf(k) == selected[k].selection_reason.kind

\* ------------------------------------------------------------------ rendering.rs

\* A String is a sequence of pieces of text; the empty String is <<>>.
Ok(x) == [ok |-> TRUE, v |-> x]

Err(e) == [ok |-> FALSE, v |-> <<e>>]

OutputFormats == {"Markdown", "Compact", "Json"}

\* [String]::join
join(strs, sep) ==
    LET J[i \in 0..Len(strs)] ==
            IF i = 0 THEN <<>>
            ELSE IF i = 1 THEN strs[1]
            ELSE J[i - 1] \o <<sep>> \o strs[i]
    IN  J[Len(strs)]

separator(fmt) ==
    CASE fmt = "Markdown" -> "\n\n"
      [] fmt = "Compact" -> " | "
      [] fmt = "Json" -> ",\n"

\* The layers that files of the cache name ("" is a file without a layer).
LayerNames(c) == Range(c.files) \ {""}

\* The orders a HashMap can iterate a set of keys in.
IterationOrders(keys) ==
    {o \in [1..Cardinality(keys) -> keys] :
        \A i, j \in 1..Cardinality(keys) : i # j => o[i] # o[j]}

\* extract_layers: layer_counts is a HashMap built by the call, and the items
\* come out in the order that map iterates in (order).
extract_layers(c, order) ==
    [i \in 1..Len(order) |->
        [name |-> order[i],
         fileCount |-> Cardinality({f \in 1..Len(c.files) : c.files[f] = order[i]})]]

\* The comparator of items.sort_by as the set of pairs it answers Less for:
\* numbers against numbers, strings against strings, anything else Equal.
SortLess(items, sort_by, sort_order) ==
    {p \in Range(items) \X Range(items) :
        LET a == IF sort_order = "Asc" THEN p[1] ELSE p[2]
            b == IF sort_order = "Asc" THEN p[2] ELSE p[1]
        IN  CASE sort_by = "fileCount" -> a.fileCount < b.fileCount
              [] sort_by = "name" ->
                    \* str::cmp on the layer names in use
                    \E i, j \in 1..3 : /\ i < j
                                       /\ a.name = <<"api", "db", "ui">>[i]
                                       /\ b.name = <<"api", "db", "ui">>[j]
              [] OTHER -> FALSE}

\* Vec::truncate
truncate(items, max) == SubSeq(items, 1, IF max < Len(items) THEN max ELSE Len(items))

extract_data(source, config, c, order) ==
    LET items == IF source = "cache.layers" THEN extract_layers(c, order) ELSE <<>>
        sorted == IF config.sort_by.some
                  THEN SortBy(items, SortLess(items, config.sort_by.v, config.sort_order))
                  ELSE items
    IN  IF config.max_items.some THEN truncate(sorted, config.max_items.v) ELSE sorted

\* Handlebars::render_template: a template that does not parse is an error.
render_template(template, data) ==
    IF template = "- {{name}}" THEN Ok(<<"- ", data.name>>)
    ELSE Err("Template")

unwrap_or_default(opt) == IF opt.some THEN opt.v ELSE <<>>

render_static_section(template) == Ok(unwrap_or_default(template.template))

render_dynamic_section(section, template, data_config, c, order) ==
    LET items == extract_data(data_config.source, data_config, c, order)
        rendered_items ==
            IF template.item_template.some
            THEN [i \in 1..Len(items) |-> render_template(template.item_template.v, items[i])]
            ELSE <<>>
    IN  IF items = <<>>
        THEN CASE data_config.empty_behavior = "Exclude" -> Ok(<<>>)
               [] data_config.empty_behavior = "Placeholder" ->
                      Ok(unwrap_or_default(template.empty_template))
               [] data_config.empty_behavior = "Error" -> Err("EmptyData")
        ELSE IF \E i \in 1..Len(rendered_items) : ~rendered_items[i].ok
        THEN Err("Template")
        ELSE Ok(unwrap_or_default(template.header)
                \o join([i \in 1..Len(rendered_items) |-> rendered_items[i].v],
                        template.separator)
                \o unwrap_or_default(template.footer))

\* SectionFormats::get
get(formats, fmt) ==
    CASE fmt = "Markdown" -> formats.markdown
      [] fmt = "Compact" -> formats.compact
      [] fmt = "Json" -> formats.json

render_section(section, fmt, c, order) ==
    LET template == get(section.formats, fmt)
    IN  IF ~template.some THEN Err("MissingFormat")
        ELSE IF section.data.some
        THEN render_dynamic_section(section, template.v, section.data.v, c, order)
        ELSE render_static_section(template.v)

\* render: the format's wrapping of the Strings that were collected.
render(strs, fmt) ==
    IF fmt = "Json"
    THEN Ok(<<"[\n">> \o join(strs, separator(fmt)) \o <<"\n]">>)
    ELSE Ok(join(strs, separator(fmt)))

\* generate: renderer.render(..).unwrap_or_else(|e| format!("Error rendering primer: {}", e))
unwrap_or_else(result) ==
    IF result.ok THEN result.v ELSE <<"Error rendering primer: ">> \o result.v

\* ------------------------------------------------------------------ rendered inputs

FormatTemplate(template, header, item_template, empty_template) ==
    [template |-> template,
     header |-> header,
     footer |-> None,
     item_template |-> item_template,
     separator |-> "\n",
     empty_template |-> empty_template]

SectionData(source, sort_by, sort_order, max_items, empty_behavior) ==
    [source |-> source,
     sort_by |-> sort_by,
     sort_order |-> sort_order,
     max_items |-> max_items,
     empty_behavior |-> empty_behavior]

SectionName(i) == <<"A", "B", "C", "D">>[i]

\* SectionFormats with the same template for the three formats.
AllFormats(template) ==
    [markdown |-> Some(template), compact |-> Some(template), json |-> Some(template)]

ListTemplate(item_template) ==
    FormatTemplate(None, Some(<<"Layers:", "\n">>), Some(item_template), Some(<<"(no layers)">>))

\* The kinds of section the renderer is given.
RenderKinds ==
    {"static", "static_empty", "markdown_only",
     "layers", "layers_by_name", "layers_by_count", "layers_top",
     "layers_or_error", "layers_or_placeholder", "layers_bad_template",
     "unknown_source"}

\* The section at position i of the selected list (fields the renderer reads).
RenderedSection(i, kind) ==
    LET static == FormatTemplate(Some(<<"# ", SectionName(i)>>), None, None, None)
        data(sort_by, max_items, empty_behavior) ==
            Some(SectionData("cache.layers", sort_by, "Desc", max_items, empty_behavior))
    IN  [id |-> SectionName(i),
         formats |->
            CASE kind = "static" -> AllFormats(static)
              [] kind = "static_empty" -> AllFormats(FormatTemplate(None, None, None, None))
              [] kind = "markdown_only" ->
                    [markdown |-> Some(static), compact |-> None, json |-> None]
              [] kind = "layers_bad_template" -> AllFormats(ListTemplate("- {{name"))
              [] OTHER -> AllFormats(ListTemplate("- {{name}}")),
         data |->
            CASE kind \in {"static", "static_empty", "markdown_only"} -> None
              [] kind = "layers_by_name" -> data(Some("name"), None, "Exclude")
              [] kind = "layers_by_count" -> data(Some("fileCount"), None, "Exclude")
              [] kind = "layers_top" -> data(Some("fileCount"), Some(1), "Exclude")
              [] kind = "layers_or_error" -> data(None, None, "Error")
              [] kind = "layers_or_placeholder" -> data(None, None, "Placeholder")
              [] kind = "unknown_source" ->
                    Some(SectionData("cache.unknown", None, "Desc", None, "Exclude"))
              [] OTHER -> data(None, None, "Exclude")]

\* The layer of each file of the cache ("" for a file without one).
CacheFiles ==
    {<<>>, <<"">>, <<"api">>, <<"api", "db">>, <<"db", "api", "api">>}

\* ------------------------------------------------------------------ generate, render

RenderInit ==
    \E n \in 0..MaxRendered :
      \E kinds \in [1..n -> RenderKinds], fmt \in OutputFormats, files \in CacheFiles :
        /\ SelectorIdle
        /\ cache = [files |-> files]
        /\ format = fmt
        /\ sections = [i \in 1..n |-> RenderedSection(i, kinds[i])]
        /\ idx = 1
        /\ outcomes = <<>>
        /\ rendered = <<>>
        /\ content = None
        /\ previous = None
        /\ EvaluatorIdle

\* A turn of the iterator that keeps the message of a section that failed.
RenderSectionKeepsErrors ==
    /\ ~content.some /\ idx \in 1..Len(sections)
    /\ \E order \in IterationOrders(LayerNames(cache)) :
          LET r == render_section(sections[idx], format, cache, order)
          IN  /\ outcomes' = Append(outcomes, r)
              /\ rendered' = IF r.v # <<>> THEN Append(rendered, r.v) ELSE rendered
    /\ idx' = idx + 1
    /\ UNCHANGED <<selector, evaluator, app, cache, format, sections, content, previous>>

\* A turn of the iterator without the filter on empty Strings.
RenderSectionKeepsEmpty ==
    /\ ~content.some /\ idx \in 1..Len(sections)
    /\ \E order \in IterationOrders(LayerNames(cache)) :
          LET r == render_section(sections[idx], format, cache, order)
          IN  /\ outcomes' = Append(outcomes, r)
              /\ rendered' = IF r.ok THEN Append(rendered, r.v) ELSE rendered
    /\ idx' = idx + 1
    /\ UNCHANGED <<selector, evaluator, app, cache, format, sections, content, previous>>

\* One turn of render's iterator: render_section, .ok(), the filter on empty
\* Strings, and the push of collect().
RenderSection ==
    /\ ~content.some /\ idx \in 1..Len(sections)
    /\ \E order \in IterationOrders(LayerNames(cache)) :
          LET r == render_section(sections[idx], format, cache, order)
          IN  /\ outcomes' = Append(outcomes, r)
              /\ rendered' = IF r.ok /\ r.v # <<>> THEN Append(rendered, r.v) ELSE rendered
    /\ idx' = idx + 1
    /\ UNCHANGED <<selector, evaluator, app, cache, format, sections, content, previous>>

\* The iterator is exhausted: render joins, generate unwraps.
RenderJoin ==
    /\ ~content.some /\ idx = Len(sections) + 1
    /\ content' = Some(unwrap_or_else(render(rendered, format)))
    /\ UNCHANGED <<selector, evaluator, app, cache, format, sections, idx, outcomes, rendered, previous>>

\* generate is called a second time with the same cache and the same request.
GenerateAgain ==
    /\ content.some /\ ~previous.some
    /\ previous' = content
    /\ content' = None
    /\ idx' = 1
    /\ outcomes' = <<>>
    /\ rendered' = <<>>
    /\ UNCHANGED <<selector, evaluator, app, cache, format, sections>>

RenderNext == RenderSection \/ RenderJoin \/ GenerateAgain

SpecRender == RenderInit /\ [][RenderNext]_vars

\* ------------------------------------------------------------------ evaluate_condition

\* Path names: three that the snapshot resolves and two that it does not.
Paths ==
    {"domains.count", "layers.count", "constraints.frozenCount", "unknown.path", "domains"}

Operators == {">=", "<=", ">", "<", "==", "!="}

\* The condition strings: "path op n" with or without blanks around it, the
\* bare path, "path op n" written without blanks, and "path op many".
ConditionStrings ==
    {Condition(p, op, n) : p \in Paths, op \in Operators \cup {""}, n \in 0..MaxCount}
    \cup {<<" ">> \o Condition(p, op, n) \o <<" ">> :
            p \in Paths, op \in Operators \cup {""}, n \in 0..MaxCount}
    \cup {<<p>> \o OpChars(op) \o <<Literals[n + 1]>> :
            p \in Paths, op \in Operators, n \in 0..MaxCount}
    \cup {<<p, " ">> \o OpChars(op) \o <<" ", "many">> : p \in Paths, op \in Operators}

ConditionInit ==
    \E c \in ConditionStrings, d \in 0..MaxCount, f \in 0..MaxCount :
        /\ state = [domains |-> [count |-> d], layers |-> [count |-> 1],
                    constraints |-> [frozen_count |-> f]]
        /\ SelectionIdle
        /\ RendererIdle
        /\ condition = c
        /\ verdict = None
        /\ ScorerIdle
        /\ AppIdle

Evaluate ==
    /\ ~verdict.some /\ condition # <<>>
    /\ verdict' = Some(evaluate_condition(condition, state))
    /\ UNCHANGED <<selector, renderer, app, scorer, condition>>

SpecCondition == ConditionInit /\ [][Evaluate]_vars

\* ---------------------------------------------------------------------------
\* score_section on sections with modifiers
\* ---------------------------------------------------------------------------

\* The conditions of the modifiers: one that holds when the project has a
\* domain, and one on a path the snapshot does not have.
ModifierConditions ==
    {Condition("domains.count", ">", 0), Condition("unknown.path", ">", 0)}

\* The modifiers: any combination of add, multiply and set on one dimension
\* or on all of them.
Modifiers ==
    [condition : ModifierConditions,
     add : {None, Some(150), Some(-150)},
     multiply : {None, Some([num |-> 3, den |-> 1]), Some([num |-> 1, den |-> 2]),
                 Some([num |-> -1, den |-> 1])},
     set : {None, Some(100), Some(250)},
     dimension : {"safety", "base", "all"}]

\* The modifiers with one operation, on safety or on all dimensions, that
\* hold when the project has a domain.
SimpleModifiers ==
    {m \in Modifiers :
        /\ m.condition = Condition("domains.count", ">", 0)
        /\ m.dimension # "base"
        /\ Cardinality({f \in {"add", "multiply", "set"} : m[f].some}) = 1}

\* The lists of modifiers of the section: none, any one modifier, or up to
\* MaxModifiers simple ones.
ModifierLists ==
    {<<>>} \cup {<<m>> : m \in Modifiers}
    \cup UNION {[1..n -> SimpleModifiers] : n \in 2..MaxModifiers}

\* The base dimensions of the section, all within 0..100.
BaseDimensions == {0, 50, 100}

ScoreInit ==
    \E ms \in ModifierLists, s \in BaseDimensions, b \in BaseDimensions, d \in 0..1,
       enabled \in BOOLEAN :
        /\ given = [PlainSection(1) EXCEPT
                        !.value = [safety |-> s, efficiency |-> 50, accuracy |-> 50,
                                   base |-> b, modifiers |-> ms]]
        /\ modifiers_enabled = enabled
        /\ returned = None
        /\ state = [domains |-> [count |-> d], layers |-> [count |-> 0],
                    constraints |-> [frozen_count |-> 0]]
        /\ SelectionIdle
        /\ RendererIdle
        /\ condition = <<>>
        /\ verdict = None
        /\ AppIdle

ScoreSection ==
    /\ given # <<>> /\ ~returned.some
    /\ returned' = Some(score_section(given, state, BalancedWeights, modifiers_enabled))
    /\ UNCHANGED <<selector, renderer, app, condition, verdict, given, modifiers_enabled>>

SpecScore == ScoreInit /\ [][ScoreSection]_vars

\* ---------------------------------------------------------------------------
\* AppState (state.rs) and handle_generate_primer (mcp/service.rs): requests
\* and reloads running as concurrent tasks over the RwLock of the cache
\* ---------------------------------------------------------------------------

\* The tasks running handle_generate_primer.
Requests == 1..NumRequests

\* The tasks running reload_cache.
Reloaders == (NumRequests + 1)..(NumRequests + NumReloads)

\* The write lock taken without waiting for the readers.
CanWriteWhileRead == writer = 0

\* RwLock::write: granted when no guard of either kind is out.
CanWrite == readers = {} /\ writer = 0

\* RwLock::read: granted when no write guard is out.
CanRead == writer = 0

\* AppState::load: the cache on disk is in the lock, no task has started.
AppInit ==
    /\ disk = 0
    /\ shared_cache = 0
    /\ readers = {}
    /\ writer = 0
    /\ waiters = <<>>
    /\ task = [p \in Requests \cup Reloaders |-> "start"]
    /\ loaded = [w \in Reloaders |-> None]
    /\ observed = [r \in Requests |-> <<>>]
    /\ SelectorIdle
    /\ RendererIdle
    /\ condition = <<>>
    /\ verdict = None
    /\ ScorerIdle

\* `acp index` rewrites .acp/acp.cache.json.
Reindex ==
    /\ disk < MaxDisk
    /\ disk' = disk + 1
    /\ UNCHANGED <<shared_cache, readers, writer, waiters, task, loaded, observed>>
    /\ UNCHANGED <<selector, renderer, evaluator>>

\* handle_generate_primer: self.state.cache_async().await joins the queue of
\* the lock.
CacheAsync ==
    \E r \in Requests :
        /\ task[r] = "start"
        /\ task' = [task EXCEPT ![r] = "read_wait"]
        /\ waiters' = Append(waiters, r)
        /\ UNCHANGED <<disk, shared_cache, readers, writer, loaded, observed>>
        /\ UNCHANGED <<selector, renderer, evaluator>>

\* The lock hands the read guard to the request at the head of its queue.
ReadGranted ==
    /\ waiters # <<>>
    /\ Head(waiters) \in Requests
    /\ CanRead
    /\ readers' = readers \cup {Head(waiters)}
    /\ waiters' = Tail(waiters)
    /\ task' = [task EXCEPT ![Head(waiters)] = "from_cache"]
    /\ UNCHANGED <<disk, shared_cache, writer, loaded, observed>>
    /\ UNCHANGED <<selector, renderer, evaluator>>

\* generate: ProjectState::from_cache(cache) reads the cache.
FromCache ==
    \E r \in Requests :
        /\ task[r] = "from_cache"
        /\ observed' = [observed EXCEPT ![r] = Append(@, shared_cache)]
        /\ task' = [task EXCEPT ![r] = "score"]
        /\ UNCHANGED <<disk, shared_cache, readers, writer, waiters, loaded>>
        /\ UNCHANGED <<selector, renderer, evaluator>>

\* generate: score_sections works on the state extracted from the cache.
Score ==
    \E r \in Requests :
        /\ task[r] = "score"
        /\ observed' = [observed EXCEPT ![r] = Append(@, @[1])]
        /\ task' = [task EXCEPT ![r] = "select"]
        /\ UNCHANGED <<disk, shared_cache, readers, writer, waiters, loaded>>
        /\ UNCHANGED <<selector, renderer, evaluator>>

\* generate: select_sections works on the scores and the same state.
Select ==
    \E r \in Requests :
        /\ task[r] = "select"
        /\ observed' = [observed EXCEPT ![r] = Append(@, @[1])]
        /\ task' = [task EXCEPT ![r] = "render"]
        /\ UNCHANGED <<disk, shared_cache, readers, writer, waiters, loaded>>
        /\ UNCHANGED <<selector, renderer, evaluator>>

\* generate: the renderer reads the data of the sections from the cache.
Render ==
    \E r \in Requests :
        /\ task[r] = "render"
        /\ observed' = [observed EXCEPT ![r] = Append(@, shared_cache)]
        /\ task' = [task EXCEPT ![r] = "return"]
        /\ UNCHANGED <<disk, shared_cache, readers, writer, waiters, loaded>>
        /\ UNCHANGED <<selector, renderer, evaluator>>

\* handle_generate_primer returns: its read guard is dropped.
Return ==
    \E r \in Requests :
        /\ task[r] = "return"
        /\ readers' = readers \ {r}
        /\ task' = [task EXCEPT ![r] = "done"]
        /\ UNCHANGED <<disk, shared_cache, writer, waiters, loaded, observed>>
        /\ UNCHANGED <<selector, renderer, evaluator>>

\* reload_cache: the file is read and parsed before the lock is asked for.
ReadDisk ==
    \E w \in Reloaders :
        /\ task[w] = "start"
        /\ loaded' = [loaded EXCEPT ![w] = Some(disk)]
        /\ task' = [task EXCEPT ![w] = "write"]
        /\ UNCHANGED <<disk, shared_cache, readers, writer, waiters, observed>>
        /\ UNCHANGED <<selector, renderer, evaluator>>

\* reload_cache: read_to_string or from_str fails and `?` returns the error.
ReadDiskFails ==
    \E w \in Reloaders :
        /\ task[w] = "start"
        /\ task' = [task EXCEPT ![w] = "done"]
        /\ UNCHANGED <<disk, shared_cache, readers, writer, waiters, loaded, observed>>
        /\ UNCHANGED <<selector, renderer, evaluator>>

\* reload_cache: self.inner.cache.write().await joins the queue of the lock.
Write ==
    \E w \in Reloaders :
        /\ task[w] = "write"
        /\ task' = [task EXCEPT ![w] = "write_wait"]
        /\ waiters' = Append(waiters, w)
        /\ UNCHANGED <<disk, shared_cache, readers, writer, loaded, observed>>
        /\ UNCHANGED <<selector, renderer, evaluator>>

\* The lock hands the write guard to the reload at the head of its queue.
WriteGranted ==
    /\ waiters # <<>>
    /\ Head(waiters) \in Reloaders
    /\ CanWrite
    /\ writer' = Head(waiters)
    /\ waiters' = Tail(waiters)
    /\ task' = [task EXCEPT ![Head(waiters)] = "replace"]
    /\ UNCHANGED <<disk, shared_cache, readers, loaded, observed>>
    /\ UNCHANGED <<selector, renderer, evaluator>>

\* reload_cache: *write_guard = cache
Replace ==
    \E w \in Reloaders :
        /\ task[w] = "replace"
        /\ shared_cache' = loaded[w].v
        /\ task' = [task EXCEPT ![w] = "release"]
        /\ UNCHANGED <<disk, readers, writer, waiters, loaded, observed>>
        /\ UNCHANGED <<selector, renderer, evaluator>>

\* reload_cache returns: its write guard is dropped.
ReleaseWrite ==
    \E w \in Reloaders :
        /\ task[w] = "release"
        /\ writer' = 0
        /\ task' = [task EXCEPT ![w] = "done"]
        /\ UNCHANGED <<disk, shared_cache, readers, waiters, loaded, observed>>
        /\ UNCHANGED <<selector, renderer, evaluator>>

AppNext ==
    \/ Reindex
    \/ CacheAsync
    \/ ReadGranted
    \/ FromCache
    \/ Score
    \/ Select
    \/ Render
    \/ Return
    \/ ReadDisk
    \/ ReadDiskFails
    \/ Write
    \/ WriteGranted
    \/ Replace
    \/ ReleaseWrite

SpecCache == AppInit /\ [][AppNext]_vars

\* ------------------------------------------------------------------ claims

\* C1: the tokens used never exceed the budget: in every state of a run, so
\* after every append of every phase and of include_dependencies, and in the
\* result that is returned.
C1_TokensWithinBudget == tokens_used <= budget

\* C1 witness: a returned result that holds a dependency and that left an
\* eligible section out because it no longer fitted.
C1_Witness ==
    /\ Done
    /\ tokens_used > 0
    /\ \E k \in 1..Len(selected) : ReasonOf(k) = "Dependency"
    /\ \E i \in Ids : /\ IsEligible(i) /\ i \notin SelectedIds /\ i \notin excluded_ids
                      /\ ~Fits(tokens_used, scored[i].tokens, budget)

\* C2: when A lists B in conflicts_with, the result never holds both A and B.
C2_NoConflictingPair ==
    Done => \A a \in Ids, b \in Ids :
                (a # b /\ b \in scored[a].section.conflicts_with)
                    => ~(a \in SelectedIds /\ b \in SelectedIds)

\* C3: a selected section with depends_on = [B] has B in the result, in front
\* of it (so a B that did not fit keeps A out as well).
C3_DependencyBefore ==
    Done => \A k \in 1..Len(selected) :
                Len(DepsOf(selected[k].id)) = 1
                    => \E j \in 1..(k - 1) : selected[j].id = DepsOf(selected[k].id)[1]

\* C4: no section id appears twice in the selected sequence.
C4_NoDuplicateIds ==
    Done => \A j \in 1..Len(selected), k \in 1..Len(selected) :
                j # k => selected[j].id # selected[k].id

\* C5: select_sections is total: no run ends in a stack overflow or a panic.
C5_Total == pc \notin {"stack_overflow", "panic"}

\* The sections the scenario of C6 is about: eligible, neither flagged
\* required nor force-included, with required_if = "domains.count > 3".
C6_Sections ==
    {s \in Ids : /\ IsEligible(s)
                 /\ ~scored[s].section.required
                 /\ s \notin request.force_include
                 /\ scored[s].section.required_if = DomainsCondition}

C7_Catalog(r, o) ==
    /\ Len(scored) = 2 /\ r # o
    /\ IsEligible(r) /\ IsEligible(o)
    /\ scored[r].section.required /\ scored[r].tokens = 20
    /\ ~scored[o].section.required /\ o \notin request.force_include
    /\ scored[o].tokens = 30
    /\ \A i \in Ids : DepsOf(i) = <<>> /\ scored[i].section.conflicts_with = {}

\* C7: on that catalog, budget 25 gives exactly [r] with 20 tokens used and
\* excluded_count >= 1, budget 40 gives exactly [r], and o is selected only
\* when 50 <= budget, behind r.
C7_RequiredThenOptional ==
    \A r \in Ids, o \in Ids :
        (Done /\ C7_Catalog(r, o)) =>
            /\ budget = 25 => /\ SelectedSeq = <<r>>
                              /\ tokens_used = 20
                              /\ excluded_count >= 1
            /\ budget = 40 => SelectedSeq = <<r>>
            /\ o \in SelectedIds => 20 + 30 <= budget /\ SelectedSeq = <<r, o>>

\* C7 witness: that catalog, with the optional section listed first, selected
\* under budget 25.
C7_Witness ==
    /\ Done
    /\ C7_Catalog(2, 1)
    /\ budget = 25
    /\ SelectedSeq = <<2>>
    /\ excluded_count = 1

\* The budget test of phase 1 is about to fail for the candidate cur.
C8_BudgetTestFails ==
    /\ pc = "phase1" /\ cur # 0 /\ Len(stack) = 1 /\ FrameDone(Top)
    /\ ~Fits(tokens_used, scored[cur].tokens, budget)

\* The phase-1 turn of s is over.
C8_TurnOver(s) ==
    \/ pc \in {"phase2", "phase3", "phase4", "done"}
    \/ pc = "phase1" /\ cur # s /\ s \notin Range(queue)

\* The required sections that phase 1 left out at the budget test: their turn
\* is over, they are not in the result and no conflict excludes them.
C8_Omitted ==
    {o \in Range(Phase1Candidates) :
        /\ scored[o].section.required
        /\ C8_TurnOver(o)
        /\ o \notin SelectedIds /\ o \notin excluded_ids}

C9_Passing ==
    {i \in Ids : /\ is_capability_compatible(scored[i], request.capabilities)
                 /\ is_category_compatible(scored[i], request.categories)
                 /\ is_tag_compatible(scored[i], request.tags)}

\* C9: excluded_count is the number of sections that pass the filters minus
\* the number of selected entries, and the subtraction never goes below zero
\* (so it neither panics nor wraps).
C9_ExcludedCount ==
    /\ pc # "panic"
    /\ Done => /\ excluded_count = Cardinality(C9_Passing) - Len(selected)
               /\ excluded_count >= 0

Rank(kind) ==
    CASE kind \in {"Required", "ForcedInclude"} -> 1
      [] kind = "ConditionallyRequired" -> 2
      [] kind = "SafetyCritical" -> 3
      [] kind = "ValueOptimized" -> 4
      [] OTHER -> 0

\* C10: leaving the Dependency entries aside, the reasons of the selected
\* sequence are in phase order (Required/ForcedInclude, ConditionallyRequired,
\* SafetyCritical, ValueOptimized), and the entry of a section flagged required
\* is in front of the entry of every section that is neither required nor
\* force-included.
C10_PhaseOrder ==
    \A j \in 1..Len(selected), k \in 1..Len(selected) :
        (ReasonOf(j) # "Dependency" /\ ReasonOf(k) # "Dependency") =>
            /\ j < k => Rank(ReasonOf(j)) <= Rank(ReasonOf(k))
            /\ ( /\ scored[selected[j].id].section.required
                 /\ ~scored[selected[k].id].section.required
                 /\ selected[k].id \notin request.force_include ) => j < k

\* C10 witness: a result where a Required entry is in front of a
\* ValueOptimized entry of a section that comes earlier in the catalog.
C10_Witness ==
    /\ Done
    /\ \E j \in 1..Len(selected), k \in 1..Len(selected) :
          /\ j < k
          /\ ReasonOf(j) = "Required" /\ ReasonOf(k) = "ValueOptimized"
          /\ selected[k].id < selected[j].id

\* C11: generate called twice with the same catalog, cache and request gives
\* the same rendered text, the order of the items of a data-bound section
\* included.
C11_SameContentTwice ==
    (previous.some /\ content.some) => previous.v = content.v

\* The capability check as C12 words it.
C12_CapabilityCheck(i) ==
    LET all_of == scored[i].section.capabilities_all
        any_of == scored[i].section.capabilities
    IN  CASE all_of # {} -> all_of \subseteq request.capabilities
          [] any_of # {} -> any_of \cap request.capabilities # {}
          [] OTHER -> TRUE

\* The sections of the second sentence of C12: the any-of set meets the
\* available capabilities, the non-empty all-of set is not all available.
C12_AnyButNotAll ==
    {i \in Ids : /\ scored[i].section.capabilities \cap request.capabilities # {}
                 /\ scored[i].section.capabilities_all # {}
                 /\ ~(scored[i].section.capabilities_all \subseteq request.capabilities)}

\* C12: the eligible sections are those that pass the capability check (all-of
\* before any-of), the category allow-list when there is one and the tag
\* allow-list when there is one; a section whose any-of set is met while its
\* all-of set is not is never in the result, and nothing that is not eligible is.
C12_EligibleIff ==
    /\ \A i \in Ids :
          IsEligible(i) <=>
              /\ C12_CapabilityCheck(i)
              /\ request.categories.some => scored[i].section.category \in request.categories.v
              /\ request.tags.some => scored[i].section.tags \cap request.tags.v # {}
    /\ C12_AnyButNotAll \cap SelectedIds = {}
    /\ SelectedIds \subseteq Range(eligible)

\* C12 witness: a result that holds a section, while a required or
\* force-included section of the second sentence, which another section
\* depends on or not, was left out.
C12_Witness ==
    /\ Done
    /\ selected # <<>>
    /\ \E i \in C12_AnyButNotAll :
          scored[i].section.required \/ i \in request.force_include

\* The path of a condition string: what stands in front of the operator.
C13_Path == trim(condition)[1]

\* C13: a condition whose path does not resolve in the snapshot evaluates to
\* false, whatever the operator, the operator-less form included.
C13_UnresolvedIsFalse ==
    ( /\ verdict.some
      /\ C13_Path \notin {"domains.count", "layers.count", "constraints.frozenCount"} )
        => verdict.v = FALSE

\* C13 witness: "unknown.path != 0" and "unknown.path == 0" were evaluated.
C13_Witness ==
    /\ verdict.some
    /\ condition \in {Condition("unknown.path", "!=", 0), Condition("unknown.path", "==", 0)}

\* The comparison v op n.
C14_Compare(v, op, n) ==
    CASE op = ">=" -> v >= n
      [] op = "<=" -> v <= n
      [] op = ">" -> v > n
      [] op = "<" -> v < n
      [] op = "==" -> v = n
      [] op = "!=" -> v # n
      [] op = "" -> v > 0

\* The count of the snapshot that a path names.
C14_Count(p) ==
    CASE p = "domains.count" -> state.domains.count
      [] p = "layers.count" -> state.layers.count
      [] p = "constraints.frozenCount" -> state.constraints.frozen_count

\* C14: on "path op n" with a path that resolves to v the verdict is v op n,
\* and on the bare path it is v > 0.
C14_ComparesAsWritten ==
    \A p \in Paths, op \in Operators \cup {""}, n \in 0..MaxCount :
        ( /\ verdict.some
          /\ p \in {"domains.count", "layers.count", "constraints.frozenCount"}
          /\ condition \in {Condition(p, op, n), <<" ">> \o Condition(p, op, n) \o <<" ">>} )
            => verdict.v = C14_Compare(C14_Count(p), op, n)

\* C14 witness: "constraints.frozenCount >= n" was evaluated to true with a
\* frozen count of exactly n.
C14_Witness ==
    /\ verdict.some /\ verdict.v = TRUE
    /\ condition = Condition("constraints.frozenCount", ">=", state.constraints.frozen_count)

\* The sections of this call that rendered to a text that is not empty.
Contributing == {i \in 1..Len(outcomes) : outcomes[i].ok /\ outcomes[i].v # <<>>}

\* The pieces render itself puts into the document.
Punctuation == {separator(format), "[\n", "\n]"}

\* C15: render never fails: the document is never the "Error rendering
\* primer" fallback, the text of every section that rendered is in it as it
\* was rendered, and nothing else is in it but separators and the brackets of
\* the Json format, so a section that failed contributes nothing.
C15_FailuresIsolated ==
    content.some =>
        /\ \A j \in 1..Len(content.v) : content.v[j] # "Error rendering primer: "
        /\ \A i \in Contributing : find(content.v, outcomes[i].v) # 0
        /\ \A j \in 1..Len(content.v) :
              \/ content.v[j] \in Punctuation
              \/ \E i \in Contributing : content.v[j] \in Range(outcomes[i].v)

\* C15 witness: a document with the text of a section that comes after a
\* section whose template failed and after one whose data was empty under the
\* Error policy or whose format has no template.
C15_Witness ==
    /\ content.some
    /\ \E i, j, k \in 1..Len(outcomes) :
          /\ i < k /\ j < k
          /\ outcomes[i] = Err("Template")
          /\ outcomes[j] \in {Err("EmptyData"), Err("MissingFormat")}
          /\ k \in Contributing

\* The places of the document where a separator of the format stands.
C16_Separators == {j \in 1..Len(content.v) : content.v[j] = separator(format)}

\* The document cut at its separators, brackets taken off: the texts joined.
C16_Body ==
    IF format = "Json" THEN SubSeq(content.v, 2, Len(content.v) - 1) ELSE content.v

\* C16: the document is the texts of the contributing sections in selection
\* order with one separator between neighbours, so k of them give
\* max(0, k - 1) separators; the Json format puts brackets around it, also
\* around nothing.
C16_JoinOfNonEmpty ==
    content.some =>
        LET k == Cardinality(Contributing)
            texts == FilterSeq([i \in 1..Len(outcomes) |-> i], Contributing)
        IN  /\ Cardinality(C16_Separators) = IF k = 0 THEN 0 ELSE k - 1
            /\ format = "Json" =>
                  /\ Len(content.v) >= 2
                  /\ content.v[1] = "[\n" /\ content.v[Len(content.v)] = "\n]"
            /\ k = 0 => C16_Body = <<>>
            /\ C16_Body = join([n \in 1..k |-> outcomes[texts[n]].v], separator(format))

\* C16 witness: a document of two texts with a section between them that has
\* no template for the format or rendered to nothing, and an empty Json
\* document.
C16_Witness ==
    /\ content.some
    /\ \/ \E i, j, k \in 1..Len(outcomes) :
             /\ i < j /\ j < k
             /\ i \in Contributing /\ k \in Contributing
             /\ outcomes[j] \in {Err("MissingFormat"), Ok(<<>>)}
       \/ /\ format = "Json" /\ outcomes # <<>> /\ Contributing = {}

\* C17: when generate_primer requests and reload_cache run concurrently, the
\* state extraction, scoring, selection and rendering of one request all see
\* one and the same cache version, and reload_cache never replaces the cache
\* while a request holds its read guard.
C17_OneVersion ==
    \A r \in DOMAIN observed :
        \A i, j \in DOMAIN observed[r] : observed[r][i] = observed[r][j]

C17_Replaces ==
    \E w \in DOMAIN loaded : task[w] = "replace" /\ task'[w] = "release"

C17_ConsistentSnapshot ==
    /\ []C17_OneVersion
    /\ [][C17_Replaces => readers = {}]_vars

\* C17 witness: a request in the middle of its run holds the read guard on the
\* cache a reload installed after another request had finished on the older
\* one, while a second reload waits for the lock with a newer cache.
C17_Witness ==
    \E r, r2 \in DOMAIN observed :
        \E w \in DOMAIN loaded :
            /\ task[r] \in {"score", "select", "render"}
            /\ r \in readers
            /\ task[w] = "write_wait"
            /\ loaded[w].v # observed[r][1]
            /\ task[r2] = "done"
            /\ observed[r2][1] # observed[r][1]

\* The token cost of the first k entries of the result that were selected
\* with reason SafetyCritical.
RECURSIVE SafetyCost(_)
SafetyCost(k) ==
    IF k = 0 THEN 0
    ELSE SafetyCost(k - 1)
         + (IF ReasonOf(k) = "SafetyCritical" THEN selected[k].tokens ELSE 0)

\* C19: the total token cost of the sections selected with reason
\* SafetyCritical never exceeds 40% (rounded down) of the budget that remained
\* when phase 3 was entered.
C19_SafetyWithinLimit == SafetyCost(Len(selected)) <= safety_budget

\* C20: once a section X has been appended to the result, no id listed in
\* X.conflicts_with is appended later in the same run, in whatever phase and
\* for whatever reason.
C20_NoConflictAppendedLater ==
    \A j \in 1..Len(selected), k \in 1..Len(selected) :
        j < k => selected[k].id \notin scored[selected[j].id].section.conflicts_with

\* The four dimensions of a section value.
Dimensions(value) == {value.safety, value.efficiency, value.accuracy, value.base}

\* C18: for a section whose base dimensions are in 0..100, any list of
\* modifiers and any state, every dimension of the adjusted value returned by
\* score_section lies in 0..200.
C18_AdjustedWithinCeiling ==
    (returned.some /\ Dimensions(given.value) \subseteq 0..100)
        => Dimensions(returned.v.adjusted_value) \subseteq 0..200

\* C21: when select_sections returns, every eligible section that is neither
\* selected nor excluded by a conflict costs more than what is left of the
\* budget.
C21_NoFittingSectionLeftOut ==
    Done => \A i \in Ids :
                (IsEligible(i) /\ i \notin SelectedIds /\ i \notin excluded_ids)
                    => scored[i].tokens > budget - tokens_used

\* Phase 1 is over and the run has not crashed.
PastPhase1 == pc \in {"phase2", "phase3", "phase4", "done"}

\* The result has an entry for section id with one of these reasons.
SelectedAs(id, reasons) ==
    \E k \in 1..Len(selected) : selected[k].id = id /\ ReasonOf(k) \in reasons

\* The forced sections that pass the filter, are not excluded and would
\* still fit now (so that they fitted at their turn as well).
C22_ForcedThatFit ==
    {f \in request.force_include \cap Ids :
        /\ IsEligible(f)
        /\ f \notin excluded_ids
        /\ scored[f].tokens <= budget - tokens_used}

\* C22 as stated: a forced section that passes the filter, is not excluded
\* and fits is selected with reason ForcedInclude.
C22_ForcedSelectedAsForced ==
    PastPhase1 => \A f \in C22_ForcedThatFit : SelectedAs(f, {"ForcedInclude"})

C22_Entries ==
    /\ \A k \in 1..Len(selected) :
          /\ selected[k].id \in request.force_include => IsEligible(selected[k].id)
          /\ ReasonOf(k) = "ForcedInclude" => selected[k].id \in request.force_include
          /\ ReasonOf(k) = "Required" => selected[k].id \notin request.force_include
    /\ \A j \in 1..Len(selected), k \in 1..Len(selected) :
          (j < k /\ {ReasonOf(j), ReasonOf(k)} \subseteq {"ForcedInclude", "Required"})
              => selected[j].id < selected[k].id
    /\ PastPhase1 =>
          \A f \in C22_ForcedThatFit : SelectedAs(f, {"ForcedInclude", "Dependency"})

C22_Appended ==
    (Len(selected') = Len(selected) + 1
     /\ selected'[Len(selected')].selection_reason.kind = "ForcedInclude")
        => /\ pc = "phase1"
           /\ cur = selected'[Len(selected')].id
           /\ tokens_used + selected'[Len(selected')].tokens <= budget

C22_Turn ==
    (pc = "phase1" /\ cur = 0 /\ queue # <<>> /\ Head(queue) \in excluded_ids)
        => (cur' = 0 /\ selected' = selected)

\* C22 (amended): a forced section never enters the result unless it passes
\* the filter; the phase 1 loop appends it with reason ForcedInclude, required
\* flag or not, in catalog order, only when it fits and never when it is
\* excluded at its turn; and a forced section that passes the filter, is not
\* excluded and fits is in the result after phase 1, with reason ForcedInclude
\* or, when a section before it had pulled it in, with reason Dependency.
C22_ForcedInPhase1 ==
    /\ []C22_Entries
    /\ [][C22_Appended /\ C22_Turn]_vars

\* C22 witness: after phase 1 the result holds a forced section that was
\* pulled in as a dependency and a section selected with reason ForcedInclude.
C22_Witness ==
    /\ PastPhase1
    /\ \E j \in 1..Len(selected) :
          ReasonOf(j) = "Dependency" /\ selected[j].id \in request.force_include
    /\ \E k \in 1..Len(selected) : ReasonOf(k) = "ForcedInclude"

\* No section is required, forced or conditionally required, none has a
\* dependency or a conflict.
Independent ==
    /\ request.force_include = {}
    /\ \A i \in Ids :
          /\ ~scored[i].section.required
          /\ ~scored[i].is_conditionally_required
          /\ scored[i].section.depends_on = <<>>
          /\ scored[i].section.conflicts_with = {}

\* The eligible sections with adjusted safety of 80 or more.
Critical == {i \in Ids : IsEligible(i) /\ scored[i].adjusted_value.safety >= 80}

\* Section a ranks above section b by (safety, weighted score), both descending.
Outranks(a, b) ==
    \/ scored[a].adjusted_value.safety > scored[b].adjusted_value.safety
    \/ /\ scored[a].adjusted_value.safety = scored[b].adjusted_value.safety
       /\ scored[a].weighted_score > scored[b].weighted_score

\* The section that ranks first: none outranks it, and those that tie with it
\* come after it in the catalog.
RanksFirst(i) ==
    /\ i \in Critical
    /\ \A j \in Critical \ {i} : Outranks(i, j) \/ (~Outranks(j, i) /\ i < j)

C24_Cmp(j, k) ==
    LET a == scored[selected[j].id].value_per_token
        b == scored[selected[k].id].value_per_token
    IN  IF a.num * b.den > b.num * a.den THEN 1
        ELSE IF a.num * b.den = b.num * a.den THEN 0 ELSE -1

\* C24: the entries selected with reason ValueOptimized appear in
\* non-increasing order of value per token, and those of equal value per
\* token in catalog order.
C24_ValueOrder ==
    \A j \in 1..Len(selected), k \in 1..Len(selected) :
        (j < k /\ ReasonOf(j) = "ValueOptimized" /\ ReasonOf(k) = "ValueOptimized")
            => \/ C24_Cmp(j, k) = 1
               \/ C24_Cmp(j, k) = 0 /\ selected[j].id < selected[k].id

\* C24 witness: a returned result with three ValueOptimized entries, the
\* first of higher value per token than the second though it comes later in
\* the catalog, the last two of equal value per token.
C24_Witness ==
    /\ Done
    /\ \E j \in 1..Len(selected) :
          /\ j + 2 <= Len(selected)
          /\ \A k \in {j, j + 1, j + 2} : ReasonOf(k) = "ValueOptimized"
          /\ C24_Cmp(j, j + 1) = 1
          /\ selected[j].id > selected[j + 1].id
          /\ C24_Cmp(j + 1, j + 2) = 0

\* The names of the four dimensions of a section value.
DimensionNames == {"safety", "efficiency", "accuracy", "base"}

\* The modifiers of the given section that are enabled, whose condition is
\* true in the state and that target dimension d.
C25_Applied(d) ==
    {k \in DOMAIN given.value.modifiers :
        /\ modifiers_enabled
        /\ given.value.modifiers[k].condition = Condition("domains.count", ">", 0)
        /\ state.domains.count > 0
        /\ given.value.modifiers[k].dimension \in {d, "all"}}

\* C25: score_section changes only the dimensions targeted by modifiers whose
\* condition is true in the state; with modifiers disabled or no condition
\* true the adjusted value is the base value; the catalog entry handed in
\* comes back as it was.
C25_OnlyTargetedDimensionsChange ==
    returned.some =>
        /\ returned.v.section = given
        /\ returned.v.adjusted_value.modifiers = given.value.modifiers
        /\ \A d \in DimensionNames :
              C25_Applied(d) = {} => returned.v.adjusted_value[d] = given.value[d]

\* C25 witness: a modifier on safety alone applied and changed the safety of
\* the returned value; the other three dimensions are the base ones.
C25_Witness ==
    /\ returned.some
    /\ C25_Applied("safety") # {}
    /\ C25_Applied("base") = {}
    /\ returned.v.adjusted_value.safety # given.value.safety
    /\ \A d \in DimensionNames \ {"safety"} :
          returned.v.adjusted_value[d] = given.value[d]

\* The snapshot counter the claim maps a data source to.
C26_ItemCount(source) ==
    CASE source = "cache.domains" -> state.domains.count
      [] source = "cache.layers" -> state.layers.count
      [] source = "cache.constraints.by_lock_level" -> state.constraints.protected_count
      [] source = "vars.variables" -> state.variables.count
      [] source = "attempts.active" -> state.attempts.active_count
      [] source = "cache.hacks" -> state.hacks.count
      [] source = "cache.entryPoints" -> state.entry_points.count
      [] OTHER -> 5

\* The cost the claim gives section i: its constant when fixed, and
\* 15 + min(item_count, max_items) * item_tokens when dynamic over data.
C26_Cost(i) ==
    LET s == scored[i].section
        d == s.data.v
        count == C26_ItemCount(d.source)
        capped == IF d.max_items.some /\ d.max_items.v < count
                  THEN d.max_items.v ELSE count
    IN  IF s.tokens.fixed THEN s.tokens.n
        ELSE 15 + capped * (IF d.item_tokens.some THEN d.item_tokens.v ELSE 10)

\* The sections the claim speaks of: fixed, or dynamic with a data binding.
C26_Costed == {i \in Ids : scored[i].section.tokens.fixed \/ scored[i].section.data.some}

C26_Resolved ==
    /\ \A i \in C26_Costed : scored[i].tokens = C26_Cost(i)
    /\ \A k \in 1..Len(selected) :
          selected[k].id \in C26_Costed => selected[k].tokens = C26_Cost(selected[k].id)

C26_Charged ==
    (Len(selected') = Len(selected) + 1 /\ selected'[Len(selected')].id \in C26_Costed)
        => /\ tokens_used' = tokens_used + C26_Cost(selected'[Len(selected')].id)
           /\ tokens_used' <= budget

\* C26: the resolved token cost of a section is its declared constant when
\* fixed and 15 + min(item_count, max_items) * item_tokens when dynamic with a
\* data binding (item_count from the snapshot, 5 for an unknown source; the
\* cap only when max_items is declared; item_tokens 10 by default), and this
\* cost is what select_sections charges against the budget.
C26_ResolvedCostCharged ==
    /\ []C26_Resolved
    /\ [][C26_Charged]_vars

\* C26 witness: a returned result that holds a dynamic section whose item
\* count was capped by max_items and whose item_tokens was declared.
C26_Witness ==
    /\ Done
    /\ \E k \in 1..Len(selected) :
          LET s == scored[selected[k].id].section
          IN  /\ ~s.tokens.fixed
              /\ s.data.some
              /\ s.data.v.max_items.some
              /\ s.data.v.max_items.v > 0
              /\ s.data.v.max_items.v < C26_ItemCount(s.data.v.source)
              /\ s.data.v.item_tokens.some
              /\ tokens_used >= 15 + s.data.v.max_items.v * s.data.v.item_tokens.v

\* C27: whenever a section is in the result with reason Dependency(X), X is
\* in the result too, later in the sequence.
C27_RequesterSelectedLater ==
    Done => \A k \in 1..Len(selected) :
                ReasonOf(k) = "Dependency"
                    => \E m \in (k + 1)..Len(selected) :
                          selected[m].id = selected[k].selection_reason.by

\* The capability, category and tag filters of the request, read off the
\* section: capabilities_all must all be offered, capabilities (when
\* capabilities_all is empty and it is not) must share one with the request,
\* the category and one of the tags must be on the allow-lists when given.
C28_PassesFilters(i) ==
    LET s == scored[i].section
    IN  /\ IF s.capabilities_all # {} THEN s.capabilities_all \subseteq request.capabilities
           ELSE IF s.capabilities # {} THEN s.capabilities \cap request.capabilities # {}
           ELSE TRUE
        /\ request.categories.some => s.category \in request.categories.v
        /\ request.tags.some => s.tags \cap request.tags.v # {}

\* C28: every section in the result passes the capability, category and tag
\* filters of the request, dependencies and forced sections included.
C28_ResultPassesFilters ==
    \A k \in 1..Len(selected) : C28_PassesFilters(selected[k].id)

\* C28 witness: a returned result next to a forced section and a dependency
\* of a selected section that fail the filters and stayed out.
C28_Witness ==
    /\ Done
    /\ \E f \in request.force_include : ~C28_PassesFilters(f)
    /\ \E k \in 1..Len(selected) :
          \E d \in Range(DepsOf(selected[k].id)) : ~C28_PassesFilters(d)

\* C29: when two sections each list the other in conflicts_with, the result
\* never contains both.
C29_SymmetricConflictExcludes ==
    \A a \in Ids, b \in Ids :
        (a # b /\ b \in scored[a].section.conflicts_with
               /\ a \in scored[b].section.conflicts_with)
            => ~(a \in SelectedIds /\ b \in SelectedIds)

\* The sum of the tokens fields of the first k entries of the result.
RECURSIVE TokensOf(_)
TokensOf(k) == IF k = 0 THEN 0 ELSE TokensOf(k - 1) + selected[k].tokens

\* C30: tokens_used is the sum of the tokens fields of the selected entries,
\* dependencies included, and the tokens and score of every entry are the
\* resolved token cost and the weighted score scoring computed for that
\* section.
C30_TokensAccounted ==
    /\ tokens_used = TokensOf(Len(selected))
    /\ \A k \in 1..Len(selected) :
          /\ selected[k].tokens = scored[selected[k].id].tokens
          /\ selected[k].score = scored[selected[k].id].weighted_score

\* C30 witness: a returned result with a dependency, a section selected on
\* its own account and entries of different cost.
C30_Witness ==
    /\ Done
    /\ \E j \in 1..Len(selected), k \in 1..Len(selected) :
          /\ ReasonOf(j) = "Dependency"
          /\ ReasonOf(k) # "Dependency"
          /\ selected[j].tokens # selected[k].tokens
          /\ selected[j].tokens > 0 /\ selected[k].tokens > 0

====
